---- MODULE Spec2Model ----
(***************************************************************************)
(* Model of src/src/__init__.py: the AnkiSystemTray coordinator of the     *)
(* "Minimize to Tray" add-on.  The toolkit (top-level widgets, their       *)
(* hidden/minimized/maximized state, destruction), the host's close        *)
(* handler and the scheduler's deck tree are the environment; every method *)
(* of AnkiSystemTray is an operator on a record s of the fields it reads   *)
(* and writes, and every callback the host can deliver is an action.       *)
(***************************************************************************)
EXTENDS Integers, Sequences, FiniteSets, TLC

\* ------------------------------------------------------------------ bounds
NumDialogs == 1      \* top-level windows with children besides the main window
MaxDecks == 2        \* children of the root of the deck tree
MaxNumber == 10010   \* largest number handed to _formatNumber (format runs)
MaxTrayIcons == 3    \* QSystemTrayIcon objects a run creates at most

\* -------------------------------------------------------------- constants
mw == 0              \* the main window (self.mw)
None == -1           \* Python's None, as the focus-changed signal sends it
dueFontSizeDefault == 16
ConfigFontSize == 12 \* a due_font_size a configuration may give

Dialogs == 1..NumDialogs
Label == NumDialogs + 1            \* a top-level widget without children
TopLevel == 0..(NumDialogs + 1)    \* every top-level widget the run knows
Platforms == {"win32", "linux"}
Reasons == {"Trigger", "Context", "DoubleClick", "MiddleClick"}
WindowMinimized == {"Minimized"}   \* Qt.WindowState.WindowMinimized

VARIABLES
    phase,                   \* "uninit" | "running" | "exited"
    platform,                \* sys.platform
    intEnums,                \* the binding's enum members are ints (True == 1)
    config,                  \* addonManager.getConfig(__name__)
    hidden,                  \* w.isHidden(), per top-level widget
    wstate,                  \* w.windowState(), per top-level widget
    deleted,                 \* sip.isdeleted(w), per top-level widget
    isAnkiFocused,
    isMinimizedToTray,
    lastFocusedWidget,
    explicitlyHiddenWindows,
    closeEventFromAction,    \* mw.closeEventFromAction
    mwAttrs,                 \* attributes the add-on has set on mw
    actionExit,              \* the slot mw.form.actionExit.triggered is connected to
    trayIcons,               \* QSystemTrayIcon objects created so far
    hooks,                   \* runs of _addHooks() so far
    error,                   \* the exception the last callback raised, or "none"
    showDueAmount,
    dueFontSize,
    displayedNumberOfCardsDue,  \* self._displayedNumberOfCardsDue
    trayIcon,                \* the icon the tray shows (NoIcon before creation)
    ev,                      \* history: the last callback, its input, its calls
    captured,                \* history: windows visible when hideAll() last ran
    priorState,              \* history: their windowState() then, until the
                             \* step after that hideAll()
    painted,                 \* history: count last drawn on the icon (None: none)
    lastRedraw,              \* history: count of the last redraw (None: no redraw)
    owed,                    \* history: windows hideAll() hid that nothing has
                             \* shown or destroyed since
    fmtIn, fmtOut            \* input and result of _getCardsDueDisplayNumber

vars == <<phase, platform, intEnums, config, hidden, wstate, deleted,
          isAnkiFocused, isMinimizedToTray, lastFocusedWidget,
          explicitlyHiddenWindows, closeEventFromAction, mwAttrs,
          actionExit, trayIcons, hooks, error,
          showDueAmount, dueFontSize, displayedNumberOfCardsDue, trayIcon, ev, captured,
          priorState, painted, lastRedraw, owed, fmtIn, fmtOut>>

\* ------------------------------------------------------------ the record s
\* The fields the handlers read and write, as one value.
Cur ==
    [phase |-> phase, hidden |-> hidden, wstate |-> wstate, deleted |-> deleted,
     isAnkiFocused |-> isAnkiFocused, isMinimizedToTray |-> isMinimizedToTray,
     lastFocusedWidget |-> lastFocusedWidget,
     explicitlyHiddenWindows |-> explicitlyHiddenWindows,
     closeEventFromAction |-> closeEventFromAction, mwAttrs |-> mwAttrs,
     actionExit |-> actionExit, trayIcons |-> trayIcons, hooks |-> hooks,
     error |-> "none",
     showDueAmount |-> showDueAmount, dueFontSize |-> dueFontSize,
     displayedNumberOfCardsDue |-> displayedNumberOfCardsDue,
     trayIcon |-> trayIcon, trace |-> <<>>]

Call(op, w) == [op |-> op, w |-> w]
Log(s, op, w) == [s EXCEPT !.trace = Append(@, Call(op, w))]
HasOp(trace, op) == \E i \in 1..Len(trace) : trace[i].op = op
Range(q) == {q[i] : i \in 1..Len(q)}

\* ------------------------------------------------------- toolkit (QWidget)
hide(s, w) == Log([s EXCEPT !.hidden[w] = TRUE], "hide", w)
show(s, w) == Log([s EXCEPT !.hidden[w] = FALSE], "show", w)
showNormal(s, w) ==
    Log([s EXCEPT !.hidden[w] = FALSE, !.wstate[w] = {}], "showNormal", w)
raise_(s, w) == Log(s, "raise_", w)
activateWindow(s, w) == Log(s, "activateWindow", w)
isMinimized(s, w) == "Minimized" \in s.wstate[w]
children(w) == IF w = Label THEN {} ELSE {"child"}
isWindow(w) == w \in TopLevel
AllWidgets == [i \in 1..(NumDialogs + 2) |-> i - 1]
topLevelWidgets(s) == SelectSeq(AllWidgets, LAMBDA w : ~s.deleted[w])

\* w.isMinimized() == Qt.WindowState.WindowMinimized compares a bool with an
\* enum member: equal to True where the member is the int 1, never equal
\* where it is a Python Enum member.
isMinimizedEqWindowMinimized(s, w) == intEnums /\ isMinimized(s, w)

\* ------------------------------------------------------------ coordinator
_visibleWindows(s) ==
    SelectSeq(topLevelWidgets(s),
              LAMBDA w : isWindow(w) /\ ~s.hidden[w] /\ children(w) # {})

_anyWindowMinimized(s) ==
    \E w \in Range(_visibleWindows(s)) : s.wstate[w] = WindowMinimized

\* _showWindows() without the sip.isdeleted() test.
RECURSIVE _showWindows_unchecked(_, _)
_showWindows_unchecked(s, windows) ==
    IF windows = <<>> THEN s
    ELSE LET w == Head(windows)
             s0 == Log(s, "isMinimized", w)
             s1 == raise_(IF isMinimizedEqWindowMinimized(s0, w)
                          THEN showNormal(s0, w)
                          ELSE show(hide(s0, w), w), w)
         IN _showWindows_unchecked(s1, Tail(windows))

RECURSIVE _showWindows(_, _)
_showWindows(s, windows) ==
    IF windows = <<>> THEN s
    ELSE LET w == Head(windows)
             s0 == Log(s, "isMinimized", w)
             s1 == IF s.deleted[w] THEN s
                   ELSE raise_(IF isMinimizedEqWindowMinimized(s0, w)
                               THEN showNormal(s0, w)
                               ELSE show(hide(s0, w), w), w)
         IN _showWindows(s1, Tail(windows))

RECURSIVE hideEach(_, _)
hideEach(s, windows) ==
    IF windows = <<>> THEN s
    ELSE hideEach(hide(s, Head(windows)), Tail(windows))

\* showAll() that forgets the snapshot and always takes the visible windows.
showAll_recompute(s) ==
    LET s0 == Log(s, "showAll", None)
        s1 == _showWindows(s0, _visibleWindows(s0))
        s2 == IF ~s1.deleted[s1.lastFocusedWidget]
              THEN activateWindow(raise_(s1, s1.lastFocusedWidget),
                                  s1.lastFocusedWidget)
              ELSE s1
    IN [s2 EXCEPT !.isMinimizedToTray = FALSE]

\* showAll() that always takes the snapshot, whatever the flag.
showAll_snapshot(s) ==
    LET s0 == Log(s, "showAll", None)
        s1 == _showWindows(s0, s0.explicitlyHiddenWindows)
        s2 == IF ~s1.deleted[s1.lastFocusedWidget]
              THEN activateWindow(raise_(s1, s1.lastFocusedWidget),
                                  s1.lastFocusedWidget)
              ELSE s1
    IN [s2 EXCEPT !.isMinimizedToTray = FALSE]

showAll(s) ==
    LET s0 == Log(s, "showAll", None)
        s1 == IF s0.isMinimizedToTray
              THEN _showWindows(s0, s0.explicitlyHiddenWindows)
              ELSE _showWindows(s0, _visibleWindows(s0))
        s2 == IF ~s1.deleted[s1.lastFocusedWidget]
              THEN activateWindow(raise_(s1, s1.lastFocusedWidget),
                                  s1.lastFocusedWidget)
              ELSE s1
    IN [s2 EXCEPT !.isMinimizedToTray = FALSE]

\* hideAll() that snapshots every top-level widget, hidden ones too.
hideAll_snapshotAll(s) ==
    LET s0 == Log(s, "hideAll", None)
        s1 == [s0 EXCEPT !.explicitlyHiddenWindows = topLevelWidgets(s0)]
        s2 == hideEach(s1, s1.explicitlyHiddenWindows)
    IN [s2 EXCEPT !.isMinimizedToTray = TRUE]

hideAll(s) ==
    LET s0 == Log(s, "hideAll", None)
        s1 == [s0 EXCEPT !.explicitlyHiddenWindows = _visibleWindows(s0)]
        s2 == hideEach(s1, s1.explicitlyHiddenWindows)
    IN [s2 EXCEPT !.isMinimizedToTray = TRUE]

startswith_win32(p) == p = "win32"

\* onActivated() without the platform test.
onActivated_noPlatform(s, reason) ==
    IF reason = "Trigger"
    THEN IF ~s.isAnkiFocused \/ _anyWindowMinimized(s) \/ s.isMinimizedToTray
         THEN showAll(s)
         ELSE hideAll(s)
    ELSE s

onActivated(s, reason) ==
    IF reason = "Trigger"
    THEN IF ~s.isAnkiFocused \/ _anyWindowMinimized(s) \/ s.isMinimizedToTray
         THEN showAll(s)
         ELSE IF ~startswith_win32(platform) THEN hideAll(s) ELSE s
    ELSE s

\* onFocusChanged() that takes no notice of focus leaving the application.
onFocusChanged_noLoss(s, old, now) ==
    IF now = None THEN s
    ELSE [s EXCEPT !.isAnkiFocused = TRUE, !.lastFocusedWidget = now]

onFocusChanged(s, old, now) ==
    LET s1 == [s EXCEPT !.isAnkiFocused = (now # None)]
    IN IF s1.isAnkiFocused THEN [s1 EXCEPT !.lastFocusedWidget = now] ELSE s1

\* The host's own close handler: it ends the session (every window goes
\* with the process), or it is called off (a window refuses to close) and
\* the application keeps running.
AnkiQt_closeEvent(s, outcome) ==
    IF outcome = "exit"
    THEN Log([s EXCEPT !.phase = "exited",
                       !.hidden = [w \in TopLevel |-> TRUE],
                       !.wstate = [w \in TopLevel |-> {}],
                       !.deleted = [w \in TopLevel |-> TRUE]],
             "AnkiQt.closeEvent", mw)
    ELSE Log(s, "AnkiQt.closeEvent", mw)

\* self.systemTray is read only on the X-button branch; where it was never
\* assigned the handler raises and the event stays accepted, so the toolkit
\* hides the main window.
repl(s, outcome) ==
    IF s.closeEventFromAction
    THEN AnkiQt_closeEvent(s, outcome)
    ELSE IF "systemTray" \notin s.mwAttrs
         THEN [s EXCEPT !.error = "AttributeError", !.hidden[mw] = TRUE]
         ELSE Log(hideAll(s), "event.ignore", mw)

\* mw.close(): the toolkit sends the close event to mw.closeEvent.
mw_close(s, outcome) == repl(Log(s, "mw.close", mw), outcome)

\* onExit() that sets the flag only after it has closed the window.
onExit_flagAfterClose(s, outcome) ==
    [mw_close(s, outcome) EXCEPT !.closeEventFromAction = TRUE]

onExit(s, outcome) ==
    mw_close([s EXCEPT !.closeEventFromAction = TRUE], outcome)

\* ------------------------------------------------------------- tray icon
DigitChars == <<"0", "1", "2", "3", "4", "5", "6", "7", "8", "9">>

\* Python's str() of a non-negative int, one character per element.
RECURSIVE str(_)
str(n) ==
    IF n < 10 THEN <<DigitChars[n + 1]>>
    ELSE str(n \div 10) \o <<DigitChars[(n % 10) + 1]>>

\* The literal of line 222 is the three characters U+00E2 U+02C6 U+017E.
_formatNumber(number) ==
    LET numberString == str(number)
    IN IF number < 1000 THEN str(number)
       ELSE IF number >= 1000 /\ number < 10000
            THEN <<numberString[1], ".", numberString[2], "k">>
            ELSE <<"U+00E2", "U+02C6", "U+017E">>

_getCardsDueDisplayNumber(amount) == _formatNumber(amount)

\* The deck tree the scheduler hands out: the children of its root.
CountValues == {0, 1}
DeckNodes == [new_count : CountValues, learn_count : CountValues,
              review_count : CountValues]
DueTrees == UNION {[1..n -> DeckNodes] : n \in 0..MaxDecks}
EmptyCollection == {<<>>}

RECURSIVE sumChildren(_, _)
sumChildren(children_, total) ==
    IF children_ = <<>> THEN total
    ELSE LET child == Head(children_)
         IN sumChildren(Tail(children_),
                        total + child.new_count + child.learn_count
                              + child.review_count)

\* _getAmountOfCardsDue() without the early return for show-due off.
_getAmountOfCardsDue_always(s, tree) == sumChildren(tree, 0)

_getAmountOfCardsDue(s, tree) ==
    IF ~s.showDueAmount THEN 0 ELSE sumChildren(tree, 0)

NoIcon == [pixmap |-> "none", badge |-> FALSE, text |-> <<>>, fontSize |-> 0]

\* The base pixmap, and over it the badge with the text when renderNumber.
_createReviewsIcon(s, string, renderNumber) ==
    IF renderNumber
    THEN [pixmap |-> "icons:anki.png", badge |-> TRUE, text |-> string,
          fontSize |-> s.dueFontSize]
    ELSE [pixmap |-> "icons:anki.png", badge |-> FALSE, text |-> <<>>,
          fontSize |-> 0]

_setSystemTrayIcon(s, numberOfReviews) ==
    LET displayNumber == _getCardsDueDisplayNumber(numberOfReviews)
        shouldShowNumber == numberOfReviews > 0 /\ s.showDueAmount
        ankiLogo == _createReviewsIcon(s, displayNumber, shouldShowNumber)
    IN Log([s EXCEPT !.trayIcon = ankiLogo], "setIcon", numberOfReviews)

\* updateSystemTrayIcon() that does not look at force.
updateSystemTrayIcon_ignoreForce(s, force, tree) ==
    LET numberOfCardsDue == _getAmountOfCardsDue(s, tree)
        shouldUpdate == /\ s.showDueAmount
                        /\ numberOfCardsDue # s.displayedNumberOfCardsDue
    IN IF shouldUpdate
       THEN _setSystemTrayIcon(
                [s EXCEPT !.displayedNumberOfCardsDue = numberOfCardsDue],
                numberOfCardsDue)
       ELSE s

updateSystemTrayIcon(s, force, tree) ==
    LET numberOfCardsDue == _getAmountOfCardsDue(s, tree)
        didDueCardCountChange ==
            numberOfCardsDue # s.displayedNumberOfCardsDue
        shouldShowDueAmount == s.showDueAmount
        shouldUpdate == shouldShowDueAmount /\ didDueCardCountChange
    IN IF shouldUpdate \/ force
       THEN _setSystemTrayIcon(
                [s EXCEPT !.displayedNumberOfCardsDue = numberOfCardsDue],
                numberOfCardsDue)
       ELSE s

_createSystemTrayIcon(s, tree) ==
    _setSystemTrayIcon([s EXCEPT !.trayIcons = @ + 1],
                       _getAmountOfCardsDue(s, tree))

\* actionExit.triggered.disconnect(self.mw.close) raises TypeError where the
\* action is not connected to mw.close; the lines after it are not run.
_configureMw(s) ==
    LET s1 == [s EXCEPT !.closeEventFromAction = FALSE,
                        !.mwAttrs = @ \cup {"closeEventFromAction"}]
    IN IF s1.actionExit # "mw.close"
       THEN [s1 EXCEPT !.error = "TypeError"]
       ELSE [s1 EXCEPT !.actionExit = "onExit",
                       !.mwAttrs = @ \cup {"closeEvent"}]

_addHooks(s) == [s EXCEPT !.hooks = @ + 1]

\* AnkiSystemTray.__init__ with hideAll() run before the fields are set.
AnkiSystemTray_hideFirst(s, cfg, tree) ==
    LET s1 == IF "show_due" \in DOMAIN cfg /\ cfg["show_due"] = FALSE
              THEN [s EXCEPT !.showDueAmount = FALSE] ELSE s
        s2 == IF "due_font_size" \in DOMAIN cfg
              THEN [s1 EXCEPT !.dueFontSize = cfg["due_font_size"]] ELSE s1
        s2h == IF "hide_on_startup" \in DOMAIN cfg /\ cfg["hide_on_startup"]
               THEN hideAll(s2) ELSE s2
        s3 == [s2h EXCEPT !.isAnkiFocused = TRUE, !.isMinimizedToTray = FALSE,
                          !.lastFocusedWidget = mw,
                          !.explicitlyHiddenWindows = <<>>]
        s4 == _configureMw(_createSystemTrayIcon(s3, tree))
        s5 == _addHooks(s4)
    IN IF s4.error # "none" THEN s4
       ELSE IF "hide_on_startup" \notin DOMAIN cfg
            THEN [s5 EXCEPT !.error = "KeyError"]
            ELSE s5

\* AnkiSystemTray.__init__, on the configuration cfg.  An exception ends it
\* where it is raised: TypeError inside _configureMw(), KeyError at
\* config["hide_on_startup"] where the key is absent.
AnkiSystemTray(s, cfg, tree) ==
    LET s1 == IF "show_due" \in DOMAIN cfg /\ cfg["show_due"] = FALSE
              THEN [s EXCEPT !.showDueAmount = FALSE] ELSE s
        s2 == IF "due_font_size" \in DOMAIN cfg
              THEN [s1 EXCEPT !.dueFontSize = cfg["due_font_size"]] ELSE s1
        s3 == [s2 EXCEPT !.isAnkiFocused = TRUE, !.isMinimizedToTray = FALSE,
                         !.lastFocusedWidget = mw,
                         !.explicitlyHiddenWindows = <<>>]
        s4 == _configureMw(_createSystemTrayIcon(s3, tree))
        s5 == _addHooks(s4)
    IN IF s4.error # "none" THEN s4
       ELSE IF "hide_on_startup" \notin DOMAIN cfg
            THEN [s5 EXCEPT !.error = "KeyError"]
            ELSE IF cfg["hide_on_startup"] THEN hideAll(s5) ELSE s5

\* A new instance starts from the class-level attributes.
NewInstance(s) ==
    [s EXCEPT !.showDueAmount = TRUE, !.dueFontSize = dueFontSizeDefault,
              !.displayedNumberOfCardsDue = 0]

\* The guard looks for mw.trayIcon, the constructor's result goes to
\* mw.systemTray.  Where the constructor raises nothing is assigned: an
\* earlier coordinator (the hooks hold it) stays the one that acts, with its
\* own fields, and of the failed construction only what it did to mw and
\* the toolkit stays.
minimizeToTrayInit(s, cfg, tree) ==
    IF "trayIcon" \in s.mwAttrs THEN s
    ELSE LET r == AnkiSystemTray(NewInstance(s), cfg, tree)
         IN IF r.error = "none"
            THEN [r EXCEPT !.mwAttrs = @ \cup {"systemTray"}]
            ELSE IF s.hooks > 0
                 THEN [s EXCEPT !.trayIcons = r.trayIcons,
                                !.closeEventFromAction = r.closeEventFromAction,
                                !.mwAttrs = r.mwAttrs,
                                !.actionExit = r.actionExit,
                                !.hooks = r.hooks,
                                !.hidden = r.hidden,
                                !.error = r.error,
                                !.trace = SelectSeq(r.trace,
                                              LAMBDA c : c.op # "setIcon")]
                 ELSE r

\* ---------------------------------------------------------------- actions
Idle == [name |-> "host", arg |-> "", due |-> None, tray |-> FALSE,
         trace |-> <<>>]
NoPrior == [w \in {} |-> {}]
LastOp(trace, op) ==
    trace[CHOOSE i \in 1..Len(trace) :
              /\ trace[i].op = op
              /\ \A j \in (i + 1)..Len(trace) : trace[j].op # op]

\* The windows with children that are visible now, as the toolkit reports.
ShownNow == {w \in TopLevel : ~deleted[w] /\ ~hidden[w] /\ children(w) # {}}

\* Windows a handler hid inside hideAll().
HiddenBy(trace) ==
    {trace[i].w : i \in {j \in 1..Len(trace) :
                            /\ trace[j].op = "hide"
                            /\ \E k \in 1..(j - 1) : trace[k].op = "hideAll"
                            /\ \A k \in 1..(j - 1) : trace[k].op # "showAll"}}

\* The state a handler leaves, with the history of what it did.
Commit(s, name, arg, due) ==
    /\ phase' = s.phase
    /\ hidden' = s.hidden
    /\ wstate' = s.wstate
    /\ deleted' = s.deleted
    /\ isAnkiFocused' = s.isAnkiFocused
    /\ isMinimizedToTray' = s.isMinimizedToTray
    /\ lastFocusedWidget' = s.lastFocusedWidget
    /\ explicitlyHiddenWindows' = s.explicitlyHiddenWindows
    /\ closeEventFromAction' = s.closeEventFromAction
    /\ mwAttrs' = s.mwAttrs
    /\ actionExit' = s.actionExit
    /\ trayIcons' = s.trayIcons
    /\ hooks' = s.hooks
    /\ error' = s.error
    /\ showDueAmount' = s.showDueAmount
    /\ dueFontSize' = s.dueFontSize
    /\ displayedNumberOfCardsDue' = s.displayedNumberOfCardsDue
    /\ trayIcon' = s.trayIcon
    /\ ev' = [name |-> name, arg |-> arg, due |-> due,
              tray |-> HasOp(s.trace, "showAll") /\ isMinimizedToTray,
              trace |-> s.trace]
    /\ captured' = IF HasOp(s.trace, "hideAll") THEN ShownNow ELSE captured
    /\ priorState' =
          IF HasOp(s.trace, "hideAll") THEN [w \in ShownNow |-> wstate[w]]
          ELSE IF HasOp(s.trace, "showAll") /\ HasOp(ev.trace, "hideAll")
               THEN priorState ELSE NoPrior
    /\ painted' = IF HasOp(s.trace, "setIcon")
                  THEN LastOp(s.trace, "setIcon").w ELSE painted
    /\ lastRedraw' = IF name = "updateSystemTrayIcon" /\ HasOp(s.trace, "setIcon")
                     THEN LastOp(s.trace, "setIcon").w ELSE lastRedraw
    /\ owed' = {w \in (IF HasOp(s.trace, "showAll") THEN {} ELSE owed)
                           \cup HiddenBy(s.trace) :
                    s.hidden[w] /\ ~s.deleted[w]}
    /\ UNCHANGED <<platform, intEnums, config, fmtIn, fmtOut>>

\* gui_hooks.main_window_did_init fires: the main window is up.
MinimizeToTrayInit(trees) ==
    /\ phase = "uninit"
    /\ \E tree \in trees :
          Commit([minimizeToTrayInit(Cur, config, tree)
                     EXCEPT !.phase = "running"],
                 "minimizeToTrayInit", "", sumChildren(tree, 0))

\* gui_hooks.main_window_did_init fires once more.
MainWindowDidInitAgain(trees) ==
    /\ phase = "running"
    /\ trayIcons < MaxTrayIcons
    /\ \E tree \in trees :
          Commit(minimizeToTrayInit(Cur, config, tree), "minimizeToTrayInit",
                 "again", sumChildren(tree, 0))

\* trayIcon.activated
OnActivated ==
    /\ phase = "running"
    /\ \E reason \in Reasons :
          Commit(onActivated(Cur, reason), "onActivated",
                 IF reason = "Trigger" THEN "Trigger" ELSE "other", None)

\* The tray menu's "Show all windows".
ShowAllTriggered ==
    /\ phase = "running"
    /\ Commit(showAll(Cur), "showAll", "", None)

\* actionExit.triggered
OnExit ==
    /\ phase = "running"
    /\ \E outcome \in {"exit", "stay"} :
          Commit(onExit(Cur, outcome), "onExit", "", None)

\* The main window's X button: a close event the exit action did not cause.
CloseButton ==
    /\ phase = "running"
    /\ ~hidden[mw]
    /\ \E outcome \in {"exit", "stay"} :
          Commit(repl(Cur, outcome), "closeEvent", "", None)

\* app.focusChanged: focus goes to a visible window of the application, or
\* leaves the application.
OnFocusChanged ==
    /\ phase = "running"
    /\ \E now \in {None} \cup {w \in ShownNow : "Minimized" \notin wstate[w]} :
          Commit(onFocusChanged(Cur, lastFocusedWidget, now), "onFocusChanged",
                 IF now = None THEN "None" ELSE ToString(now), None)

\* A change of window w by the user or the host.  When w goes out of sight
\* while it holds the focus, the toolkit reports the loss at once
\* (onFocusChanged with now = None).
Environment(h, ws, d, w) ==
    /\ hidden' = h
    /\ wstate' = ws
    /\ deleted' = d
    /\ ev' = Idle
    /\ priorState' = NoPrior
    /\ error' = "none"
    /\ owed' = {x \in owed : h[x] /\ ~d[x]}
    /\ LET lost == /\ isAnkiFocused /\ lastFocusedWidget = w
                    /\ (h[w] \/ "Minimized" \in ws[w])
           s == IF lost THEN onFocusChanged(Cur, w, None) ELSE Cur
       IN /\ isAnkiFocused' = s.isAnkiFocused
          /\ lastFocusedWidget' = s.lastFocusedWidget
    /\ UNCHANGED <<phase, platform, intEnums, config,
                   isMinimizedToTray, mwAttrs, actionExit, trayIcons, hooks,
                   explicitlyHiddenWindows, closeEventFromAction,
                   showDueAmount, dueFontSize, displayedNumberOfCardsDue,
                   trayIcon, captured, painted, lastRedraw, fmtIn, fmtOut>>

\* The user minimizes a visible window (a maximized one stays maximized too).
UserMinimize ==
    /\ phase = "running"
    /\ \E w \in ShownNow :
          /\ "Minimized" \notin wstate[w]
          /\ Environment(hidden,
                         [wstate EXCEPT ![w] = @ \cup {"Minimized"}], deleted,
                         w)

\* The user restores a minimized window from the task bar.
UserRestore ==
    /\ phase = "running"
    /\ \E w \in ShownNow :
          /\ "Minimized" \in wstate[w]
          /\ Environment(hidden,
                         [wstate EXCEPT ![w] = @ \ {"Minimized"}], deleted,
                         w)

\* The user maximizes a visible window, or takes it back to normal size.
UserMaximize ==
    /\ phase = "running"
    /\ \E w \in ShownNow :
          /\ "Minimized" \notin wstate[w]
          /\ Environment(hidden,
                         [wstate EXCEPT ![w] = IF "Maximized" \in @
                                               THEN {} ELSE {"Maximized"}],
                         deleted, w)

\* The host shows a window (a dialog opens, a second launch raises the
\* main window, a tooltip appears).
HostShow ==
    /\ phase = "running"
    /\ \E w \in TopLevel :
          /\ ~deleted[w] /\ hidden[w]
          /\ Environment([hidden EXCEPT ![w] = FALSE], wstate, deleted, w)

\* The host hides a dialog or a tooltip.
HostHide ==
    /\ phase = "running"
    /\ \E w \in TopLevel \ {mw} :
          /\ ~deleted[w] /\ ~hidden[w]
          /\ Environment([hidden EXCEPT ![w] = TRUE], wstate, deleted, w)

\* The toolkit destroys a dialog.
Destroy ==
    /\ phase = "running"
    /\ \E w \in Dialogs :
          /\ ~deleted[w]
          /\ Environment([hidden EXCEPT ![w] = TRUE],
                         [wstate EXCEPT ![w] = {}],
                         [deleted EXCEPT ![w] = TRUE], w)

\* gui_hooks.theme_did_change
ThemeDidChange ==
    /\ phase = "running"
    /\ \E tree \in DueTrees :
          Commit(updateSystemTrayIcon(Cur, TRUE, tree), "updateSystemTrayIcon",
                 "force", sumChildren(tree, 0))

\* gui_hooks.state_did_change
StateDidChange ==
    /\ phase = "running"
    /\ \E tree \in DueTrees :
          Commit(updateSystemTrayIcon(Cur, FALSE, tree), "updateSystemTrayIcon",
                 "state_did_change", sumChildren(tree, 0))

\* gui_hooks.operation_did_execute
OperationDidExecute ==
    /\ phase = "running"
    /\ \E tree \in DueTrees :
          Commit(updateSystemTrayIcon(Cur, FALSE, tree), "updateSystemTrayIcon",
                 "operation_did_execute", sumChildren(tree, 0))

\* _setSystemTrayIcon asks for the text of a count.
GetCardsDueDisplayNumber ==
    /\ fmtOut = <<>>
    /\ fmtOut' = _getCardsDueDisplayNumber(fmtIn)
    /\ UNCHANGED <<phase, platform, intEnums, config, hidden, wstate, deleted,
                   isAnkiFocused, isMinimizedToTray, lastFocusedWidget,
                   explicitlyHiddenWindows, closeEventFromAction, mwAttrs,
                   actionExit, trayIcons, hooks, error,
                   showDueAmount, dueFontSize, displayedNumberOfCardsDue,
                   trayIcon, ev, captured, priorState, painted, lastRedraw,
                   owed, fmtIn>>

\* --------------------------------------------------------- specifications
WindowConfigs == {[hide_on_startup |-> h] : h \in BOOLEAN}
IconConfigs ==
    {[hide_on_startup |-> FALSE]}
    \cup {[hide_on_startup |-> FALSE, show_due |-> b] : b \in BOOLEAN}
    \cup {[hide_on_startup |-> FALSE, show_due |-> b,
           due_font_size |-> ConfigFontSize] : b \in BOOLEAN}

\* Before main_window_did_init: the main window is up, nothing else is, and
\* the coordinator's fields hold the class-level defaults.
InitWith(configs, platforms, enums, numbers) ==
    /\ phase = "uninit"
    /\ platform \in platforms
    /\ intEnums \in enums
    /\ config \in configs
    /\ hidden = [w \in TopLevel |-> w # mw]
    /\ wstate = [w \in TopLevel |-> {}]
    /\ deleted = [w \in TopLevel |-> FALSE]
    /\ isAnkiFocused = FALSE
    /\ isMinimizedToTray = FALSE
    /\ lastFocusedWidget = None
    /\ explicitlyHiddenWindows = <<>>
    /\ closeEventFromAction = FALSE
    /\ mwAttrs = {}
    /\ actionExit = "mw.close"
    /\ trayIcons = 0
    /\ hooks = 0
    /\ error = "none"
    /\ showDueAmount = TRUE
    /\ dueFontSize = dueFontSizeDefault
    /\ displayedNumberOfCardsDue = 0
    /\ trayIcon = NoIcon
    /\ ev = Idle
    /\ captured = {}
    /\ priorState = NoPrior
    /\ painted = None
    /\ lastRedraw = None
    /\ owed = {}
    /\ fmtIn \in numbers
    /\ fmtOut = <<>>

\* The windows: every callback that shows, hides or closes, on an empty
\* collection.
Init == InitWith(WindowConfigs, Platforms, BOOLEAN, {0})
Next ==
    \/ MinimizeToTrayInit(EmptyCollection)
    \/ OnActivated
    \/ ShowAllTriggered
    \/ OnExit
    \/ CloseButton
    \/ OnFocusChanged
    \/ UserMinimize
    \/ UserRestore
    \/ UserMaximize
    \/ HostShow
    \/ HostHide
    \/ Destroy
Spec == Init /\ [][Next]_vars

\* The tray icon: construction and the three hooks, on every deck tree.
InitIcon == InitWith(IconConfigs, {"linux"}, {FALSE}, {0})
NextIcon ==
    \/ MinimizeToTrayInit(DueTrees)
    \/ ThemeDidChange
    \/ StateDidChange
    \/ OperationDidExecute
SpecIcon == InitIcon /\ [][NextIcon]_vars

\* Start-up: every subset of the recognized keys in the configuration, any
\* of the other top-level widgets already on screen, and the hook firing
\* again after the first time.
ConfigParts(key, values) == {<<>>} \cup {key :> v : v \in values}
InitConfigs ==
    {a @@ b @@ c : a \in ConfigParts("show_due", BOOLEAN),
                   b \in ConfigParts("due_font_size", {ConfigFontSize}),
                   c \in ConfigParts("hide_on_startup", BOOLEAN)}
InitInit ==
    /\ phase = "uninit"
    /\ platform = "linux"
    /\ intEnums = FALSE
    /\ config \in InitConfigs
    /\ hidden \in {h \in [TopLevel -> BOOLEAN] : ~h[mw]}
    /\ wstate = [w \in TopLevel |-> {}]
    /\ deleted = [w \in TopLevel |-> FALSE]
    /\ isAnkiFocused = FALSE
    /\ isMinimizedToTray = FALSE
    /\ lastFocusedWidget = None
    /\ explicitlyHiddenWindows = <<>>
    /\ closeEventFromAction = FALSE
    /\ mwAttrs = {}
    /\ actionExit = "mw.close"
    /\ trayIcons = 0
    /\ hooks = 0
    /\ error = "none"
    /\ showDueAmount = TRUE
    /\ dueFontSize = dueFontSizeDefault
    /\ displayedNumberOfCardsDue = 0
    /\ trayIcon = NoIcon
    /\ ev = Idle
    /\ captured = {}
    /\ priorState = NoPrior
    /\ painted = None
    /\ lastRedraw = None
    /\ owed = {}
    /\ fmtIn = 0
    /\ fmtOut = <<>>
InitTrees == {tree \in DueTrees : Len(tree) <= 1}   \* at most one deck
NextInit ==
    \/ MinimizeToTrayInit(InitTrees)
    \/ MainWindowDidInitAgain(InitTrees)
SpecInit == InitInit /\ [][NextInit]_vars

\* The text of the badge, for every count up to MaxNumber.
InitFormat == InitWith({[hide_on_startup |-> FALSE]}, {"linux"}, {FALSE},
                       0..MaxNumber)
NextFormat == GetCardsDueDisplayNumber
SpecFormat == InitFormat /\ [][NextFormat]_vars

\* ----------------------------------------------------------------- claims
\* Windows the last handler showed (show() or showNormal()).
Shown(trace) ==
    {trace[i].w : i \in {j \in 1..Len(trace) :
                            trace[j].op \in {"show", "showNormal"}}}
\* Some visible window of the application is minimized (isMinimized()).
AnyShownMinimized == \E w \in ShownNow : "Minimized" \in wstate[w]

\* C1: a close event of the main window that the exit action did not cause
\* (the X button) makes the handler call hideAll() and ignore the event: the
\* original close behaviour is not invoked, the application keeps running,
\* no window of the application stays visible and the hidden-to-tray flag
\* is true afterwards.
C1_CloseButtonHidesToTray ==
    ev.name = "closeEvent" =>
        /\ HasOp(ev.trace, "hideAll")
        /\ HasOp(ev.trace, "event.ignore")
        /\ ~HasOp(ev.trace, "AnkiQt.closeEvent")
        /\ phase = "running"
        /\ ShownNow = {}
        /\ isMinimizedToTray

\* C2: onExit() sets closeEventFromAction before it closes the main window,
\* so that close is handed to the host's original close behaviour: hideAll()
\* is not called, the event is not ignored, and the hidden-to-tray flag and
\* the snapshot are what they were.
C2_ExitDelegates ==
    [][ev'.name = "onExit" =>
          /\ closeEventFromAction'
          /\ HasOp(ev'.trace, "AnkiQt.closeEvent")
          /\ ~HasOp(ev'.trace, "hideAll")
          /\ ~HasOp(ev'.trace, "event.ignore")
          /\ isMinimizedToTray' = isMinimizedToTray
          /\ explicitlyHiddenWindows' = explicitlyHiddenWindows]_vars

\* An exit taken while the windows were not hidden to the tray and the flag
\* was not set by an earlier exit: the session has ended.
C2_Witness ==
    /\ ev.name = "onExit"
    /\ phase = "exited"
    /\ ~isMinimizedToTray
    /\ ev.trace = <<Call("mw.close", mw), Call("AnkiQt.closeEvent", mw)>>

\* C3: a Trigger click on the tray icon while the application is unfocused,
\* or a visible window is minimized, or the hidden-to-tray flag is set, calls
\* showAll() and never hideAll(), on every platform.
C3_ClickShowsAll ==
    [][(/\ ev'.name = "onActivated"
        /\ ev'.arg = "Trigger"
        /\ (~isAnkiFocused \/ AnyShownMinimized \/ isMinimizedToTray))
       => /\ HasOp(ev'.trace, "showAll")
          /\ ~HasOp(ev'.trace, "hideAll")]_vars

\* C4: a Trigger click while the application is focused, not hidden to the
\* tray and with no visible window minimized calls hideAll() (and not
\* showAll()) on every platform but win32; on win32 it calls nothing and
\* leaves the flag, the snapshot and every window as they were.
C4_FocusedClickHides ==
    [][(/\ ev'.name = "onActivated"
        /\ ev'.arg = "Trigger"
        /\ isAnkiFocused /\ ~isMinimizedToTray /\ ~AnyShownMinimized)
       => IF platform # "win32"
          THEN /\ HasOp(ev'.trace, "hideAll")
               /\ ~HasOp(ev'.trace, "showAll")
               /\ isMinimizedToTray'
               /\ \A w \in ShownNow : hidden'[w]
          ELSE /\ ev'.trace = <<>>
               /\ UNCHANGED <<isMinimizedToTray, explicitlyHiddenWindows,
                              hidden, wstate>>]_vars

\* Such a click off win32, with two windows to hide.
C4_Witness ==
    /\ ev.name = "onActivated"
    /\ ev.arg = "Trigger"
    /\ HasOp(ev.trace, "hideAll")
    /\ Cardinality(captured) = 2
    /\ isMinimizedToTray

\* The same click on win32: nothing was called.
C4_WitnessWin32 ==
    /\ ev.name = "onActivated"
    /\ ev.arg = "Trigger"
    /\ ev.trace = <<>>
    /\ platform = "win32"

\* C5, as the specification states it: showAll() right after hideAll() makes
\* visible exactly the windows that hideAll() captured, each with the
\* windowState() it had before hideAll(), and leaves the flag false.
C5_RestoresPriorState ==
    [][(HasOp(ev.trace, "hideAll") /\ HasOp(ev'.trace, "showAll"))
       => /\ \A w \in TopLevel : (hidden[w] /\ ~hidden'[w]) <=> w \in captured
          /\ \A w \in captured : wstate'[w] = priorState[w]
          /\ ~isMinimizedToTray']_vars

\* C5, amended: the same windows come back and the flag is false; a window
\* that was not minimized keeps its state; a window that was minimized comes
\* back in the normal state (showNormal(), a maximized state lost too) where
\* isMinimized() compares equal to WindowMinimized, and comes back still
\* minimized where it does not.
C5_RestoresCaptured ==
    [][(HasOp(ev.trace, "hideAll") /\ HasOp(ev'.trace, "showAll"))
       => /\ \A w \in TopLevel : (hidden[w] /\ ~hidden'[w]) <=> w \in captured
          /\ \A w \in captured :
                wstate'[w] = IF "Minimized" \in priorState[w] /\ intEnums
                             THEN {} ELSE priorState[w]
          /\ ~isMinimizedToTray']_vars

\* showAll() right after a hideAll() that captured two windows, one of them
\* minimized and maximized.
C5_Witness ==
    /\ HasOp(ev.trace, "showAll")
    /\ DOMAIN priorState = captured
    /\ Cardinality(captured) = 2
    /\ \E w \in captured : priorState[w] = {"Minimized", "Maximized"}
    /\ \A w \in captured : ~hidden[w]

\* C6: showAll() while hidden to the tray shows only windows that were
\* visible when hideAll() last ran; a window hidden before that hideAll() is
\* not made visible.
C6_ShowsOnlySnapshot ==
    [][(HasOp(ev'.trace, "showAll") /\ isMinimizedToTray)
       => /\ Shown(ev'.trace) \subseteq captured
          /\ \A w \in TopLevel : (hidden[w] /\ ~hidden'[w]) => w \in captured]_vars

\* showAll() while hidden to the tray brought the main window back and left
\* a live dialog, hidden before hideAll(), hidden.
C6_Witness ==
    /\ HasOp(ev.trace, "showAll")
    /\ ev.tray
    /\ Shown(ev.trace) = {mw}
    /\ \E w \in Dialogs : ~deleted[w] /\ hidden[w] /\ w \notin captured

\* C7: showAll() while the hidden-to-tray flag is false works on the windows
\* visible at the call (minimized ones too), whatever snapshot an earlier
\* hideAll() left, and leaves the flag false.
C7_ShowAllRecomputes ==
    [][(HasOp(ev'.trace, "showAll") /\ ~isMinimizedToTray)
       => /\ Shown(ev'.trace) = ShownNow
          /\ ~isMinimizedToTray']_vars

\* showAll() with the flag false, on a set of windows that is not the
\* snapshot left behind, one of them un-minimized by it.
C7_Witness ==
    /\ HasOp(ev.trace, "showAll")
    /\ ~ev.tray
    /\ Range(explicitlyHiddenWindows) # {}
    /\ Shown(ev.trace) # Range(explicitlyHiddenWindows)
    /\ HasOp(ev.trace, "showNormal")

\* C8: a non-forced update draws nothing and leaves the icon and the cached
\* count alone when show-due is on and the due count is the count of the
\* last redraw; a forced update always draws the icon.
C8_UpdateRedraws ==
    [][ev'.name = "updateSystemTrayIcon" =>
          /\ (ev'.arg = "force") => HasOp(ev'.trace, "setIcon")
          /\ (/\ ev'.arg # "force"
              /\ showDueAmount
              /\ lastRedraw # None
              /\ ev'.due = lastRedraw)
             => /\ ev'.trace = <<>>
                /\ UNCHANGED <<trayIcon, displayedNumberOfCardsDue>>]_vars

\* A non-forced update that drew nothing: show-due on, three cards due, as
\* at the last redraw.
C8_Witness ==
    /\ ev.name = "updateSystemTrayIcon"
    /\ ev.arg # "force"
    /\ ev.trace = <<>>
    /\ showDueAmount
    /\ ev.due = 3
    /\ lastRedraw = 3

\* A forced update with show-due off and cards due: the icon was drawn.
C8_WitnessForced ==
    /\ ev.name = "updateSystemTrayIcon"
    /\ ev.arg = "force"
    /\ ~showDueAmount
    /\ ev.due > 0
    /\ HasOp(ev.trace, "setIcon")

\* The decimal digits of n, most significant first.
RECURSIVE Decimal(_)
Decimal(n) ==
    IF n < 10 THEN <<DigitChars[n + 1]>>
    ELSE Append(Decimal(n \div 10), DigitChars[(n % 10) + 1])

\* C9: the badge text of n is the decimal string of n below 1000; the first
\* digit, a dot, the second digit and k from 1000 to 9999 (1234 gives 1.2k,
\* 1999 gives 1.9k); the infinity glyph U+221E from 10000 on.
C9_BadgeText ==
    fmtOut # <<>> =>
        fmtOut = IF fmtIn < 1000 THEN Decimal(fmtIn)
                 ELSE IF fmtIn < 10000
                      THEN <<DigitChars[(fmtIn \div 1000) + 1], ".",
                             DigitChars[((fmtIn \div 100) % 10) + 1], "k">>
                      ELSE <<"U+221E">>

\* C10: the icon, whenever drawn, carries a badge exactly when show-due is
\* on and the count handed to the drawing is above zero; with show-due off
\* that count is 0 and there is no badge, whatever is due.
C10_BadgeIffDue ==
    trayIcon.pixmap # "none" =>
        /\ trayIcon.badge <=> (showDueAmount /\ painted > 0)
        /\ ~showDueAmount => (painted = 0 /\ ~trayIcon.badge)

\* The icon drawn with show-due off while cards are due.
C10_Witness ==
    /\ HasOp(ev.trace, "setIcon")
    /\ ~showDueAmount
    /\ ev.due > 0
    /\ ~trayIcon.badge

\* The icon drawn with a badge.
C10_WitnessBadge ==
    /\ HasOp(ev.trace, "setIcon")
    /\ trayIcon.badge
    /\ trayIcon.text = <<"2">>

\* C11: however often main_window_did_init fires, one coordinator is built:
\* there is never more than one tray icon, one run of _addHooks() and one
\* rewiring of the exit action, and a firing after the first calls nothing,
\* raises nothing and changes nothing.
C11_ConstructedOnce ==
    /\ trayIcons <= 1
    /\ hooks <= 1
    /\ (ev.name = "minimizeToTrayInit" /\ ev.arg = "again")
          => (ev.trace = <<>> /\ error = "none")

\* C12: the first construction raises nothing and assigns mw.systemTray
\* whatever keys the configuration has; an absent show_due leaves show-due
\* on, an absent due_font_size leaves the size 16, an absent
\* hide_on_startup means no hideAll().
C12_InitCompletes ==
    (ev.name = "minimizeToTrayInit" /\ ev.arg = "") =>
        /\ error = "none"
        /\ "systemTray" \in mwAttrs
        /\ "show_due" \notin DOMAIN config => showDueAmount
        /\ "due_font_size" \notin DOMAIN config
              => dueFontSize = dueFontSizeDefault
        /\ "hide_on_startup" \notin DOMAIN config
              => (~HasOp(ev.trace, "hideAll") /\ ~isMinimizedToTray)

\* C13: right after the first construction the coordinator is focused; with
\* hide_on_startup true hideAll() has run once, as the last thing done, the
\* flag is true and the snapshot holds exactly the windows that were
\* visible, all hidden now; otherwise the flag is false and the snapshot is
\* empty.
C13_StateAfterConstruction ==
    (ev.name = "minimizeToTrayInit" /\ ev.arg = "") =>
        /\ isAnkiFocused
        /\ IF "hide_on_startup" \in DOMAIN config /\ config["hide_on_startup"]
           THEN /\ Cardinality({i \in 1..Len(ev.trace) :
                                    ev.trace[i].op = "hideAll"}) = 1
                /\ \A i \in 1..Len(ev.trace) :
                      ev.trace[i].op = "hideAll"
                        => \A j \in (i + 1)..Len(ev.trace) :
                              ev.trace[j].op = "hide"
                /\ isMinimizedToTray
                /\ Range(explicitlyHiddenWindows) = captured
                /\ \A w \in captured : hidden[w]
           ELSE /\ ~isMinimizedToTray
                /\ explicitlyHiddenWindows = <<>>

\* Construction with hide_on_startup true while the main window and a dialog
\* were on screen: both are in the snapshot and hidden.
C13_Witness ==
    /\ ev.name = "minimizeToTrayInit"
    /\ ev.arg = ""
    /\ "hide_on_startup" \in DOMAIN config
    /\ config["hide_on_startup"]
    /\ captured = {mw} \cup Dialogs
    /\ isMinimizedToTray
    /\ \A w \in captured : hidden[w]

\* Construction without hide_on_startup set: nothing hidden, no snapshot.
C13_WitnessShown ==
    /\ ev.name = "minimizeToTrayInit"
    /\ ev.arg = ""
    /\ "hide_on_startup" \in DOMAIN config
    /\ ~config["hide_on_startup"]
    /\ ~hidden[mw]
    /\ explicitlyHiddenWindows = <<>>

\* C14: once the coordinator is constructed the cached count is the count
\* last drawn on the tray icon, the drawing at creation included.
C14_CacheIsPainted ==
    phase = "running" => displayedNumberOfCardsDue = painted

\* C15: onFocusChanged(old, now) makes the focus flag (now is not None),
\* records now as lastFocusedWidget when it is not None and leaves
\* lastFocusedWidget alone when it is; it calls nothing and leaves the
\* hidden-to-tray flag, the snapshot and every window as they were.
C15_FocusChangedFrame ==
    [][ev'.name = "onFocusChanged" =>
          /\ isAnkiFocused' = (ev'.arg # "None")
          /\ \A w \in TopLevel : ev'.arg = ToString(w) => lastFocusedWidget' = w
          /\ ev'.arg = "None" => lastFocusedWidget' = lastFocusedWidget
          /\ ev'.trace = <<>>
          /\ UNCHANGED <<isMinimizedToTray, explicitlyHiddenWindows, hidden,
                         wstate>>]_vars

\* Focus left the application while a dialog was the last focused widget
\* and the windows were hidden to the tray: the dialog is still recorded.
C15_Witness ==
    /\ ev.name = "onFocusChanged"
    /\ ev.arg = "None"
    /\ ~isAnkiFocused
    /\ lastFocusedWidget \in Dialogs
    /\ isMinimizedToTray

\* Focus went from the main window to a dialog.
C15_WitnessGained ==
    /\ ev.name = "onFocusChanged"
    /\ \E w \in Dialogs : ev.arg = ToString(w) /\ lastFocusedWidget = w
    /\ isAnkiFocused

\* What a handler called on widget w, in order.
OpsOn(trace, w) ==
    LET on == SelectSeq(trace, LAMBDA c : c.w = w /\ c.op \in
                  {"hide", "show", "showNormal", "raise_", "activateWindow"})
    IN [i \in 1..Len(on) |-> on[i].op]
\* The windows showAll() is to restore: the snapshot while hidden to the
\* tray, the visible windows otherwise.
ToRestore ==
    IF isMinimizedToTray THEN Range(explicitlyHiddenWindows) ELSE ShownNow

\* C16: showAll() calls nothing on a destroyed window of the set it
\* restores; on a minimized one showNormal() and raise_() (no hide(), no
\* show()); on any other hide(), show() and raise_(); and only then, last of
\* all, raise_() and activateWindow() on the last-focused widget if that is
\* not destroyed.
C16_ShowAllPerWindow ==
    [][HasOp(ev'.trace, "showAll") =>
          LET focus == IF deleted[lastFocusedWidget] THEN <<>>
                       ELSE <<"raise_", "activateWindow">>
              n == Len(ev'.trace)
          IN /\ \A w \in TopLevel :
                   OpsOn(ev'.trace, w) =
                       (IF w \notin ToRestore \/ deleted[w] THEN <<>>
                        ELSE IF "Minimized" \in wstate[w]
                             THEN <<"showNormal", "raise_">>
                             ELSE <<"hide", "show", "raise_">>)
                       \o (IF w = lastFocusedWidget THEN focus ELSE <<>>)
             /\ ~deleted[lastFocusedWidget] =>
                   /\ ev'.trace[n - 1] = Call("raise_", lastFocusedWidget)
                   /\ ev'.trace[n] = Call("activateWindow", lastFocusedWidget)]_vars

WidgetOps == {"hide", "show", "showNormal", "raise_", "activateWindow",
              "isMinimized"}

\* C17: whatever the toolkit has destroyed between the callbacks, no handler
\* calls a widget operation on a destroyed object, and showAll() leaves the
\* hidden-to-tray flag false all the same.
C17_NoCallOnDestroyed ==
    [][/\ \A i \in 1..Len(ev'.trace) :
             ev'.trace[i].op \in WidgetOps => ~deleted[ev'.trace[i].w]
       /\ HasOp(ev'.trace, "showAll") => ~isMinimizedToTray']_vars

\* showAll() while hidden to the tray, with a destroyed dialog in the
\* snapshot that is also the last-focused widget: only the main window was
\* touched and the flag is false.
C17_Witness ==
    /\ HasOp(ev.trace, "showAll")
    /\ ev.tray
    /\ \E w \in Range(explicitlyHiddenWindows) :
          deleted[w] /\ lastFocusedWidget = w
    /\ Shown(ev.trace) = {mw}
    /\ ~isMinimizedToTray

\* C18: with show-due on, once a state_did_change or operation_did_execute
\* notification is handled the count drawn on the icon is the count due in
\* the collection.
C18_PaintedIsDue ==
    (/\ ev.name = "updateSystemTrayIcon"
     /\ ev.arg # "force"
     /\ showDueAmount)
    => painted = ev.due

\* C19: showAll() makes visible every window that hideAll() has hidden since
\* the showAll() before and that nothing has shown or destroyed meanwhile,
\* however many times hideAll() ran.
C19_RestoresAllHidden ==
    [][HasOp(ev'.trace, "showAll") => \A w \in owed : ~hidden'[w]]_vars

\* C20: an X-button close that finds the flag of an earlier exit (one the
\* host called off) still set is handled as an X-button close: hideAll(),
\* the event ignored, the original close behaviour not invoked.
C20_LaterCloseStillHides ==
    [][(ev'.name = "closeEvent" /\ closeEventFromAction)
       => /\ HasOp(ev'.trace, "hideAll")
          /\ HasOp(ev'.trace, "event.ignore")
          /\ ~HasOp(ev'.trace, "AnkiQt.closeEvent")
          /\ isMinimizedToTray']_vars
====
